---- MODULE Spec2Model ----
(***************************************************************************)
(* Model of scripts/generate-tarot-images.py: the batch runner that        *)
(* generates one image per catalog card through the provider's HTTP API,   *)
(* skips cards whose output exists, retries failed attempts, and writes a  *)
(* manifest of the outcomes.                                               *)
(*                                                                         *)
(* The process is a single thread; pc is its position.  The provider and   *)
(* the filesystem are the environment: every request draws its response    *)
(* from Responses (or from a scripted mock), and the output directory may  *)
(* be absent, present, writable or read-only.                              *)
(***************************************************************************)
EXTENDS Naturals, Sequences, FiniteSets, TLC

\* ---------------------------------------------------------------- catalog
\* The "code" field of every entry of TAROT_CARDS, in listed order.
TAROT_CARDS ==
  <<
    "major_00_the_fool", "major_01_the_magician", "major_02_the_high_priestess",
    "major_03_the_empress", "major_04_the_emperor", "major_05_the_hierophant",
    "major_06_the_lovers", "major_07_the_chariot", "major_08_strength",
    "major_09_the_hermit", "major_10_wheel_of_fortune", "major_11_justice",
    "major_12_the_hanged_man", "major_13_death", "major_14_temperance",
    "major_15_the_devil", "major_16_the_tower", "major_17_the_star", "major_18_the_moon",
    "major_19_the_sun", "major_20_judgement", "major_21_the_world", "minor_wands_ace",
    "minor_wands_02", "minor_wands_03", "minor_wands_04", "minor_wands_05",
    "minor_wands_06", "minor_wands_07", "minor_wands_08", "minor_wands_09",
    "minor_wands_10", "minor_wands_page", "minor_wands_knight", "minor_wands_queen",
    "minor_wands_king", "minor_cups_ace", "minor_cups_02", "minor_cups_03", "minor_cups_04",
    "minor_cups_05", "minor_cups_06", "minor_cups_07", "minor_cups_08", "minor_cups_09",
    "minor_cups_10", "minor_cups_page", "minor_cups_knight", "minor_cups_queen",
    "minor_cups_king", "minor_swords_ace", "minor_swords_02", "minor_swords_03",
    "minor_swords_04", "minor_swords_05", "minor_swords_06", "minor_swords_07",
    "minor_swords_08", "minor_swords_09", "minor_swords_10", "minor_swords_page",
    "minor_swords_knight", "minor_swords_queen", "minor_swords_king", "minor_pentacles_ace",
    "minor_pentacles_02", "minor_pentacles_03", "minor_pentacles_04", "minor_pentacles_05",
    "minor_pentacles_06", "minor_pentacles_07", "minor_pentacles_08", "minor_pentacles_09",
    "minor_pentacles_10", "minor_pentacles_page", "minor_pentacles_knight",
    "minor_pentacles_queen", "minor_pentacles_king"
  >>

\* The run is checked on the first NumCards cards of the catalog.
NumCards == 3

Catalog == SubSeq(TAROT_CARDS, 1, NumCards)

\* The four-card fixture catalog [A,B,C,D] of the manifest test.
Fixture == <<"A", "B", "C", "D">>

\* ------------------------------------------------------------ configuration
\* generate_image(..., retry_count: int = 3)
RetryCount == 3
\* wait_time = 60 on status 429
RateLimitWait == 60
\* time.sleep(10) after a failed attempt that has attempts remaining
RetryWait == 10
\* time.sleep(2) between cards
CardDelay == 2

\* ------------------------------------------------------------- environment
\* What one request can come to.  The provider answers 200 with a payload,
\* 429, another status, or the transport raises; a 200 payload may fail to
\* decode; the write of a decoded payload may complete or fail part-way.
\*   "ok"         200, payload decodes, the write (if the file opens) completes
\*   "badpayload" 200, response.json() / ["data"][0]["b64_json"] / b64decode raises
\*   "writefail"  200, payload decodes, f.write raises after the file was opened
\*   "ratelimit"  429
\*   "error"      any other status
\*   "exception"  httpx.post raises (timeout, connection error)
Responses == {"ok", "badpayload", "writefail", "ratelimit", "error", "exception"}

\* A provider that may answer every request with any response.
AnyProvider == [mode |-> "any", script |-> <<>>]

\* Three failed attempts, each an error status or a transport exception.
PermanentFailures == [1..RetryCount -> {"error", "exception"}]

\* The mocks of the manifest test: success for A and B, rate-limit then
\* success for C, permanent failure for D.  script[c][k] answers the k-th
\* request for card c.
MockProviders ==
  { [mode |-> "mock",
     script |-> [c \in {"A", "B", "C", "D"} |->
                   CASE c \in {"A", "B"} -> [k \in 1..RetryCount |-> "ok"]
                     [] c = "C" -> [k \in 1..RetryCount |-> IF k = 1 THEN "ratelimit" ELSE "ok"]
                     [] OTHER -> d]] : d \in PermanentFailures }

\* ------------------------------------------------------------------- state
VARIABLES
  pc,         \* position of the process
  apiKey,     \* OPENAI_API_KEY is set in the environment
  dir,        \* OUTPUT_DIR: "absent" or "present"
  perm,       \* "rw": OUTPUT_DIR can be created and written; "ro": it cannot
  files,      \* card -> "none" | "old" | "full" | "partial": OUTPUT_DIR/<code>.png
  files0,     \* files when the process started
  manifest,   \* OUTPUT_DIR/manifest.json: <<>> or <<the manifest written>>
  provider,   \* the provider's behaviour
  cards,      \* the catalog the run iterates
  i,          \* index of the for loop of main (0-based)
  attempt,    \* index of the for loop of generate_image (0-based)
  generated,  \* main's lists
  failed,
  skipped,
  hist,       \* requests, responses and sleeps of the card handled last
  secondRun,  \* this process is the second of two runs in succession
  prev        \* <<>> or <<the manifest of the first run>>

vars ==
  <<pc, apiKey, dir, perm, files, files0, manifest, provider, cards, i, attempt,
    generated, failed, skipped, hist, secondRun, prev>>

env == <<apiKey, perm, provider, cards>>
lists == <<generated, failed, skipped>>
disk == <<dir, files, manifest>>
runs == <<files0, secondRun, prev>>

\* ------------------------------------------------------------------ events
Post == [ev |-> "post", n |-> 0]
Sleep(t) == [ev |-> "sleep", n |-> t]
Saved == [ev |-> "saved", n |-> 200]
DecodeFail == [ev |-> "decodefail", n |-> 200]
OpenFail == [ev |-> "openfail", n |-> 200]
WriteFail == [ev |-> "writefail", n |-> 200]
RateLimited == [ev |-> "ratelimit", n |-> 429]
ErrorStatus == [ev |-> "error", n |-> 500]
TransportException == [ev |-> "exception", n |-> 0]

\* ----------------------------------------------------------------- helpers
code == cards[i + 1]

\* Mutant of Exists: the check looks at a path where no output is written.
ExistsWrongPath(c) == FALSE

\* output_path.exists()
Exists(c) == files[c] # "none"

\* The provider (or the mock's script) answers this request with r.
Answers(r) ==
  IF provider.mode = "any" THEN TRUE ELSE provider.script[code][attempt + 1] = r

\* Mutant of BackOff: the wait is not guarded by the attempts remaining.
BackOffAlways == <<Sleep(RetryWait)>>

\* if attempt < retry_count - 1: time.sleep(10)
BackOff == IF attempt < RetryCount - 1 THEN <<Sleep(RetryWait)>> ELSE <<>>

\* Mutant of Throttle: the pause also follows the last card.
ThrottleAlways == <<Sleep(CardDelay)>>

\* if i < len(TAROT_CARDS) - 1: time.sleep(2)
Throttle == IF i < Len(cards) - 1 THEN <<Sleep(CardDelay)>> ELSE <<>>

Manifest == [total |-> Len(cards), generated |-> generated, skipped |-> skipped, failed |-> failed]

\* ----------------------------------------------------------------- initial
TypeFiles(cs) == [cs -> {"none", "old"}]

Init ==
  /\ pc = "import"
  /\ apiKey \in BOOLEAN
  /\ dir \in {"absent", "present"}
  /\ perm \in {"rw", "ro"}
  /\ provider \in {AnyProvider} \cup MockProviders
  /\ cards = IF provider.mode = "any" THEN Catalog ELSE Fixture
  /\ files \in TypeFiles({cards[k] : k \in 1..Len(cards)})
  \* an absent directory holds no file; the manifest test starts with no output
  /\ (dir = "absent" \/ provider.mode = "mock") => \A c \in DOMAIN files : files[c] = "none"
  /\ files0 = files
  /\ manifest = <<>>
  /\ i = 0
  /\ attempt = 0
  /\ generated = <<>>
  /\ failed = <<>>
  /\ skipped = <<>>
  /\ hist = <<>>
  /\ secondRun = FALSE
  /\ prev = <<>>

\* ------------------------------------------------------------ module level
\* API_KEY = os.environ.get(...); the key is set: fall through to main()
ImportOK ==
  /\ pc = "import"
  /\ apiKey
  /\ pc' = "main"
  /\ UNCHANGED <<env, disk, runs, lists, i, attempt, hist>>

\* Mutant of ImportNoKey: the missing key is reported but the script goes on.
ImportNoKeyContinues ==
  /\ pc = "import"
  /\ ~apiKey
  /\ pc' = "main"
  /\ UNCHANGED <<env, disk, runs, lists, i, attempt, hist>>

\* if not API_KEY: sys.exit(1)
ImportNoKey ==
  /\ pc = "import"
  /\ ~apiKey
  /\ pc' = "exit1"
  /\ UNCHANGED <<env, disk, runs, lists, i, attempt, hist>>

\* -------------------------------------------------------------------- main
\* OUTPUT_DIR.mkdir(parents=True, exist_ok=True); generated = failed = skipped = []
MainStart ==
  /\ pc = "main"
  /\ dir = "present" \/ perm = "rw"
  /\ dir' = "present"
  /\ generated' = <<>>
  /\ failed' = <<>>
  /\ skipped' = <<>>
  /\ i' = 0
  /\ pc' = "loop"
  /\ UNCHANGED <<env, files, manifest, runs, attempt, hist>>

\* mkdir raises: the directory is absent and cannot be created
MainMkdirFails ==
  /\ pc = "main"
  /\ dir = "absent"
  /\ perm = "ro"
  /\ pc' = "crash"
  /\ UNCHANGED <<env, disk, runs, lists, i, attempt, hist>>

\* Mutant of LoopSkip: the card is skipped without being recorded.
LoopSkipUnrecorded ==
  /\ pc = "loop"
  /\ i < Len(cards)
  /\ Exists(code)
  /\ i' = i + 1
  /\ hist' = <<>>
  /\ UNCHANGED <<pc, env, disk, runs, lists, attempt>>

\* if output_path.exists(): skipped.append(code); continue
LoopSkip ==
  /\ pc = "loop"
  /\ i < Len(cards)
  /\ Exists(code)
  /\ skipped' = Append(skipped, code)
  /\ i' = i + 1
  /\ hist' = <<>>
  /\ UNCHANGED <<pc, env, disk, runs, generated, failed, attempt>>

\* the output is missing: call generate_image
LoopGenerate ==
  /\ pc = "loop"
  /\ i < Len(cards)
  /\ ~Exists(code)
  /\ pc' = "gen"
  /\ attempt' = 0
  /\ hist' = <<>>
  /\ UNCHANGED <<env, disk, runs, lists, i>>

\* ---------------------------------------------------------- generate_image
\* Mutant of FailedAttempt: the failed attempt is retried without being
\* counted (a `while` loop whose counter is not advanced on failure).
FailedAttemptUncounted(e) ==
  /\ hist' = hist \o <<Post, e>> \o BackOff
  /\ UNCHANGED <<pc, env, dir, manifest, runs, lists, i, attempt>>

\* One iteration of `for attempt in range(retry_count)` that ends in the
\* except branch or in the final else: log, back off, next attempt.
FailedAttempt(e) ==
  /\ hist' = hist \o <<Post, e>> \o BackOff
  /\ attempt' = attempt + 1
  /\ UNCHANGED <<pc, env, dir, manifest, runs, lists, i>>

\* Mutant of AttemptSaved: the file is written but the loop goes on
\* (the `return True` is missing).
AttemptSavedNoReturn ==
  /\ pc = "gen"
  /\ attempt < RetryCount
  /\ Answers("ok")
  /\ perm = "rw"
  /\ files' = [files EXCEPT ![code] = "full"]
  /\ hist' = hist \o <<Post, Saved>>
  /\ attempt' = attempt + 1
  /\ UNCHANGED <<pc, env, dir, manifest, runs, lists, i>>

\* status 200: decode, open, write, return True
AttemptSaved ==
  /\ pc = "gen"
  /\ attempt < RetryCount
  /\ Answers("ok")
  /\ perm = "rw"
  /\ files' = [files EXCEPT ![code] = "full"]
  /\ hist' = hist \o <<Post, Saved>>
  /\ pc' = "ret_true"
  /\ UNCHANGED <<env, dir, manifest, runs, lists, i, attempt>>

\* Mutant of AttemptRateLimited: the rate-limited attempt is repeated without
\* using up an attempt (a `while` loop that does not count rate limits).
AttemptRateLimitedUncounted ==
  /\ pc = "gen"
  /\ attempt < RetryCount
  /\ Answers("ratelimit")
  /\ hist' = hist \o <<Post, RateLimited, Sleep(RateLimitWait)>>
  /\ UNCHANGED <<pc, env, disk, runs, lists, i, attempt>>

\* Mutant of AttemptRateLimited: the retry follows without the cooldown.
AttemptRateLimitedNoWait ==
  /\ pc = "gen"
  /\ attempt < RetryCount
  /\ Answers("ratelimit")
  /\ hist' = hist \o <<Post, RateLimited>>
  /\ attempt' = attempt + 1
  /\ UNCHANGED <<pc, env, disk, runs, lists, i>>

\* status 429: sleep 60 and go on with the next iteration of the for loop
AttemptRateLimited ==
  /\ pc = "gen"
  /\ attempt < RetryCount
  /\ Answers("ratelimit")
  /\ hist' = hist \o <<Post, RateLimited, Sleep(RateLimitWait)>>
  /\ attempt' = attempt + 1
  /\ UNCHANGED <<pc, env, disk, runs, lists, i>>

\* any other status
AttemptErrorStatus ==
  /\ pc = "gen"
  /\ attempt < RetryCount
  /\ Answers("error")
  /\ FailedAttempt(ErrorStatus)
  /\ UNCHANGED files

\* httpx.post raises
AttemptTransportException ==
  /\ pc = "gen"
  /\ attempt < RetryCount
  /\ Answers("exception")
  /\ FailedAttempt(TransportException)
  /\ UNCHANGED files

\* status 200, the payload does not decode: the exception is caught
AttemptBadPayload ==
  /\ pc = "gen"
  /\ attempt < RetryCount
  /\ Answers("badpayload")
  /\ FailedAttempt(DecodeFail)
  /\ UNCHANGED files

\* status 200, open(output_path, "wb") raises in a read-only directory
AttemptOpenFails ==
  /\ pc = "gen"
  /\ attempt < RetryCount
  /\ Answers("ok") \/ Answers("writefail")
  /\ perm = "ro"
  /\ FailedAttempt(OpenFail)
  /\ UNCHANGED files

\* status 200, open creates or truncates the file, f.write raises
AttemptWriteFails ==
  /\ pc = "gen"
  /\ attempt < RetryCount
  /\ Answers("writefail")
  /\ perm = "rw"
  /\ files' = [files EXCEPT ![code] = "partial"]
  /\ FailedAttempt(WriteFail)

\* the for loop is exhausted: return False
AttemptsExhausted ==
  /\ pc = "gen"
  /\ attempt >= RetryCount
  /\ pc' = "ret_false"
  /\ UNCHANGED <<env, disk, runs, lists, i, attempt, hist>>

\* ------------------------------------------------------- main, after the call
\* Mutant of RecordGenerated: the code is inserted at the head of the list.
RecordGeneratedFirst ==
  /\ pc = "ret_true"
  /\ generated' = <<code>> \o generated
  /\ hist' = hist \o Throttle
  /\ i' = i + 1
  /\ pc' = "loop"
  /\ UNCHANGED <<env, disk, runs, failed, skipped, attempt>>

\* generated.append(code); sleep 2 unless this was the last card
RecordGenerated ==
  /\ pc = "ret_true"
  /\ generated' = Append(generated, code)
  /\ hist' = hist \o Throttle
  /\ i' = i + 1
  /\ pc' = "loop"
  /\ UNCHANGED <<env, disk, runs, failed, skipped, attempt>>

\* Mutant of RecordFailed: a failed card raises and ends the run.
RecordFailedAborts ==
  /\ pc = "ret_false"
  /\ pc' = "crash"
  /\ UNCHANGED <<env, disk, runs, lists, i, attempt, hist>>

\* Mutant of RecordFailed: main goes on to the next card without recording
\* the outcome of this one.
RecordFailedUnrecorded ==
  /\ pc = "ret_false"
  /\ hist' = hist \o Throttle
  /\ i' = i + 1
  /\ pc' = "loop"
  /\ UNCHANGED <<env, disk, runs, lists, attempt>>

\* failed.append(code); sleep 2 unless this was the last card
RecordFailed ==
  /\ pc = "ret_false"
  /\ failed' = Append(failed, code)
  /\ hist' = hist \o Throttle
  /\ i' = i + 1
  /\ pc' = "loop"
  /\ UNCHANGED <<env, disk, runs, generated, skipped, attempt>>

\* summary; json.dump(manifest) into OUTPUT_DIR/manifest.json
WriteManifest ==
  /\ pc = "loop"
  /\ i >= Len(cards)
  /\ perm = "rw"
  /\ manifest' = <<Manifest>>
  /\ pc' = "done"
  /\ UNCHANGED <<env, dir, files, runs, lists, i, attempt, hist>>

\* open(manifest_path, "w") raises in a read-only directory
WriteManifestFails ==
  /\ pc = "loop"
  /\ i >= Len(cards)
  /\ perm = "ro"
  /\ pc' = "crash"
  /\ UNCHANGED <<env, disk, runs, lists, i, attempt, hist>>

\* ------------------------------------------------------------- second run
\* The script is run again after a complete run: same credential, same
\* provider, the files as the first run left them.
Rerun ==
  /\ pc = "done"
  /\ ~secondRun
  /\ secondRun' = TRUE
  /\ prev' = manifest
  /\ files0' = files
  /\ pc' = "import"
  /\ i' = 0
  /\ attempt' = 0
  /\ generated' = <<>>
  /\ failed' = <<>>
  /\ skipped' = <<>>
  /\ hist' = <<>>
  /\ UNCHANGED <<env, disk>>

\* ------------------------------------------------------------ specification
Step ==
  \/ ImportOK
  \/ ImportNoKey
  \/ MainStart
  \/ MainMkdirFails
  \/ LoopSkip
  \/ LoopGenerate
  \/ AttemptSaved
  \/ AttemptRateLimited
  \/ AttemptErrorStatus
  \/ AttemptTransportException
  \/ AttemptBadPayload
  \/ AttemptOpenFails
  \/ AttemptWriteFails
  \/ AttemptsExhausted
  \/ RecordGenerated
  \/ RecordFailed
  \/ WriteManifest
  \/ WriteManifestFails

Next == Step \/ Rerun

Spec == Init /\ [][Next]_vars

\* The process runs: every step of the script is taken once it is enabled.
\* A second run is the user's choice and is not forced.
FairSpec == Spec /\ WF_vars(Step)

\* ==================================================================== claims
Range(s) == {s[k] : k \in DOMAIN s}

Count(s, x) == Cardinality({k \in DOMAIN s : s[k] = x})

CardSet == Range(cards)

\* The responses of the card handled last, in order.
RespEvents(h) == SelectSeq(h, LAMBDA e : e.ev \notin {"post", "sleep"})

\* The number of requests issued for the card handled last.
Posts(h) == Len(SelectSeq(h, LAMBDA e : e.ev = "post"))

\* hist without the inter-card sleep main appends after the call.
Core(h) ==
  IF h # <<>> /\ h[Len(h)] = Sleep(2) THEN SubSeq(h, 1, Len(h) - 1) ELSE h

\* main has recorded the outcome of the card handled last (cards[i]).
Recorded == pc \in {"loop", "done", "crash"} /\ i >= 1

\* ---------------------------------------------------------------------- C1
\* C1: after a complete run every card of the catalog is in exactly one of
\* generated, skipped, failed, once; the lists are pairwise disjoint; their
\* lengths add up to the manifest's total, which is the catalog's length; the
\* manifest written holds exactly these lists.
C1_ExactlyOneOutcome ==
  pc = "done" =>
    /\ \A c \in CardSet : Count(generated, c) + Count(skipped, c) + Count(failed, c) = 1
    /\ Range(generated) \cup Range(skipped) \cup Range(failed) = CardSet
    /\ Range(generated) \cap Range(skipped) = {}
    /\ Range(generated) \cap Range(failed) = {}
    /\ Range(skipped) \cap Range(failed) = {}
    /\ manifest = <<Manifest>>
    /\ Len(generated) + Len(skipped) + Len(failed) = manifest[1].total
    /\ manifest[1].total = Len(cards)

C1_Witness ==
  /\ pc = "done"
  /\ provider.mode = "any"
  /\ generated # <<>>
  /\ skipped # <<>>
  /\ failed # <<>>

\* ---------------------------------------------------------------------- C2
\* C2 as stated: the second of two runs in succession records every card as
\* Skipped and issues no request.
C2_SecondRunAllSkipped ==
  secondRun =>
    /\ pc \notin {"gen", "ret_true", "ret_false"}
    /\ Posts(hist) = 0
    /\ pc = "done" => (skipped = cards /\ generated = <<>> /\ failed = <<>>)

\* The cards the first run recorded Generated or Skipped.
PrevDone == Range(prev[1].generated) \cup Range(prev[1].skipped)

\* C2 amended: the second run issues no request for a card the first run
\* recorded Generated or Skipped and records it Skipped; when the first run
\* recorded no card Failed, the second run records every card Skipped and
\* issues no request at all.
C2_SecondRunSkipsDone ==
  secondRun =>
    /\ pc \in {"gen", "ret_true", "ret_false"} => code \notin PrevDone
    /\ \A c \in PrevDone : files0[c] # "none" /\ files[c] = files0[c]
    /\ pc = "done" => PrevDone \subseteq Range(skipped)
    /\ prev[1].failed = <<>> =>
         /\ pc \notin {"gen", "ret_true", "ret_false"}
         /\ Posts(hist) = 0
         /\ pc = "done" => (skipped = cards /\ generated = <<>> /\ failed = <<>>)

C2_Witness ==
  /\ secondRun
  /\ pc = "done"
  /\ prev[1].failed = <<>>
  /\ prev[1].generated # <<>>
  /\ skipped = cards

\* ---------------------------------------------------------------------- C3
\* A failed attempt that is not a rate limit: an error status, or an
\* exception caught by the except branch.
NonRateLimitFailure(e) ==
  e.ev \in {"error", "exception", "decodefail", "openfail", "writefail"}

\* The log of the first n attempts when each fails with rs[k]: a request, its
\* failure, and a 10-unit wait unless it was the third attempt.
RECURSIVE FailLog(_, _)
FailLog(rs, n) ==
  IF n = 0 THEN <<>>
  ELSE FailLog(rs, n - 1) \o <<Post, rs[n]>> \o (IF n < 3 THEN <<Sleep(10)>> ELSE <<>>)

\* C3: while every attempt for a card so far ended in a non-rate-limit
\* failure, each attempt was one request followed by a 10-unit wait, except
\* that no wait follows the third; generate_image returns False only after
\* exactly 3 requests, and then the card is recorded Failed.
C3_RetryBound ==
  LET rs == RespEvents(hist) IN
  (hist # <<>> /\ \A k \in DOMAIN rs : NonRateLimitFailure(rs[k])) =>
    /\ Len(rs) <= 3
    /\ Posts(hist) = Len(rs)
    /\ Core(hist) = FailLog(rs, Len(rs))
    /\ pc = "gen" => attempt = Len(rs)
    /\ pc # "gen" => Len(rs) = 3
    /\ pc # "ret_true"
    /\ Recorded => (failed # <<>> /\ failed[Len(failed)] = cards[i])

C3_Witness ==
  /\ Recorded
  /\ Posts(hist) = 3
  /\ \E k \in DOMAIN hist : hist[k] = ErrorStatus
  /\ \E k \in DOMAIN hist : hist[k] = TransportException
  /\ \A k \in DOMAIN hist : hist[k].ev \notin {"ratelimit", "saved", "decodefail", "openfail", "writefail"}
  /\ failed[Len(failed)] = cards[i]

\* ---------------------------------------------------------------------- C4
\* C4 as stated: rate-limit responses do not use up the 3 attempts, so
\* generate_image gives up only after 3 failures that are not rate limits,
\* and the last response before it gives up is never a rate limit.
C4_RateLimitNeverFails ==
  LET rs == RespEvents(hist) IN
  pc = "ret_false" =>
    /\ Len(SelectSeq(rs, NonRateLimitFailure)) = 3
    /\ rs[Len(rs)] # RateLimited

\* C4 amended: every rate-limit response is followed by the 60-unit cooldown
\* and uses up one of the 3 attempts; after a rate limit on the first or
\* second attempt another request for the same card follows; no card gets
\* more than 3 requests, and a card whose 3 attempts were all rate-limited is
\* recorded Failed after exactly 3 requests.
C4_RateLimitUsesAttempt ==
  LET rs == RespEvents(hist) IN
  /\ Posts(hist) <= 3
  /\ Posts(hist) = Len(rs)
  /\ pc = "gen" => attempt = Len(rs)
  /\ pc = "ret_false" => Len(rs) = 3
  /\ \A k \in DOMAIN hist :
       hist[k] = RateLimited => (k < Len(hist) /\ hist[k + 1] = Sleep(60))
  /\ \A k \in DOMAIN rs :
       (rs[k] = RateLimited /\ k < 3 /\ pc # "gen") => Len(rs) > k
  /\ (Recorded /\ rs = <<RateLimited, RateLimited, RateLimited>>) =>
       (failed # <<>> /\ failed[Len(failed)] = cards[i])

C4_Witness ==
  /\ Recorded
  /\ RespEvents(hist) = <<RateLimited, RateLimited, RateLimited>>
  /\ failed # <<>>
  /\ failed[Len(failed)] = cards[i]

\* ---------------------------------------------------------------------- C5
\* C5: when the first request for a card is rate-limited and the second
\* succeeds (status 200, payload decoded and saved), exactly two requests were
\* issued with a wait of 60 units between the rate-limit response and the
\* second request, the file is written, and the card is recorded Generated.
C5_RateLimitRecovery ==
  RespEvents(hist) = <<RateLimited, Saved>> =>
    /\ Len(hist) >= 5
    /\ SubSeq(hist, 1, 5) = <<Post, RateLimited, Sleep(60), Post, Saved>>
    /\ Core(hist) = SubSeq(hist, 1, 5)
    /\ pc = "ret_true" \/ Recorded
    /\ files0[IF Recorded THEN cards[i] ELSE code] = "none"
    /\ files[IF Recorded THEN cards[i] ELSE code] = "full"
    /\ Recorded =>
         /\ generated # <<>>
         /\ generated[Len(generated)] = cards[i]
         /\ cards[i] \notin Range(failed) \cup Range(skipped)

C5_Witness ==
  /\ Recorded
  /\ RespEvents(hist) = <<RateLimited, Saved>>
  /\ generated # <<>>
  /\ generated[Len(generated)] = cards[i]

\* ---------------------------------------------------------------------- C6
\* Every card has an outcome.
AllRecorded == Len(generated) + Len(skipped) + Len(failed) = Len(cards)

\* C6: a failed card never ends the run: when generate_image returns False
\* main records the card Failed and goes on with the next index; the process
\* ends abnormally only before the first card (mkdir) or after the last one
\* (manifest); and once the loop is entered every card gets an outcome.
C6_FailureNotFatal ==
  /\ [][pc = "ret_false" =>
          (pc' = "loop" /\ i' = i + 1 /\ failed' = Append(failed, code))]_vars
  /\ [](pc \in {"crash", "exit1"} =>
          \/ (i = 0 /\ generated = <<>> /\ skipped = <<>> /\ failed = <<>>)
          \/ (i = Len(cards) /\ AllRecorded))
  /\ (pc = "loop") ~> AllRecorded

C6_Witness ==
  /\ pc = "done"
  /\ Len(failed) >= 1
  /\ failed[1] = cards[1]
  /\ Len(generated) >= 1
  /\ AllRecorded

\* ---------------------------------------------------------------------- C7
\* The position of a card in the catalog.
Pos(c) == CHOOSE k \in DOMAIN cards : cards[k] = c

\* s lists cards of the catalog in catalog order, none twice.
InCatalogOrder(s) ==
  /\ Range(s) \subseteq CardSet
  /\ \A a, b \in DOMAIN s : a < b => Pos(s[a]) < Pos(s[b])

\* C7: generated, skipped and failed are subsequences of the catalog, the
\* manifest written holds them as they are, and under the mock of the
\* manifest test (A, B succeed; C is rate-limited, then succeeds; D fails three
\* times; no output exists) the manifest is
\* {total: 4, generated: [A,B,C], skipped: [], failed: [D]}.
C7_ManifestOrder ==
  /\ InCatalogOrder(generated)
  /\ InCatalogOrder(skipped)
  /\ InCatalogOrder(failed)
  /\ pc = "done" =>
       /\ manifest = <<Manifest>>
       /\ InCatalogOrder(manifest[1].generated)
       /\ InCatalogOrder(manifest[1].skipped)
       /\ InCatalogOrder(manifest[1].failed)
  /\ (pc = "done" /\ ~secondRun /\ provider \in MockProviders) =>
       manifest[1] = [total |-> 4, generated |-> <<"A", "B", "C">>,
                      skipped |-> <<>>, failed |-> <<"D">>]

C7_Witness ==
  /\ pc = "done"
  /\ ~secondRun
  /\ provider \in MockProviders
  /\ cards = <<"A", "B", "C", "D">>
  /\ \A c \in CardSet : files0[c] = "none"
  /\ manifest[1].generated = <<"A", "B", "C">>

\* ---------------------------------------------------------------------- C8
\* sys.exit(1) at module level, an uncaught exception: 1; main returns: 0
ExitCode == IF pc = "done" THEN 0 ELSE 1

Exited == pc \in {"done", "exit1", "crash"}

\* C8: without the credential the process does nothing but exit with a
\* non-zero code: no card is processed, no request is issued, and the output
\* directory, the image files and the manifest stay as they were.
C8_MissingCredential ==
  /\ [](~apiKey =>
          /\ pc \in {"import", "exit1"}
          /\ Exited => ExitCode # 0
          /\ i = 0 /\ hist = <<>>
          /\ generated = <<>> /\ skipped = <<>> /\ failed = <<>>
          /\ manifest = <<>>
          /\ files = files0)
  /\ [][~apiKey => (dir' = dir /\ files' = files /\ manifest' = manifest)]_vars
  /\ [][(~apiKey /\ pc = "import") => pc' = "exit1"]_vars

C8_Witness ==
  /\ ~apiKey
  /\ pc = "exit1"
  /\ dir = "absent"
  /\ manifest = <<>>

\* ---------------------------------------------------------------------- C9
\* C9 as stated: an image file that exists is never overwritten or modified,
\* and the manifest is written at most once in a run, at its end.
C9_NoOverwrite ==
  [][/\ \A c \in CardSet : Exists(c) => files'[c] = files[c]
     /\ manifest' # manifest => (pc = "loop" /\ i = Len(cards) /\ pc' = "done")]_vars

\* --------------------------------------------------------------------- C10
\* C10 as stated: when the output directory cannot be written the run aborts
\* before any card is processed: no request is issued, no outcome recorded.
C10_UnwritableFatalAtStartup ==
  perm = "ro" =>
    /\ pc \notin {"gen", "ret_true", "ret_false"}
    /\ Posts(hist) = 0
    /\ generated = <<>> /\ skipped = <<>> /\ failed = <<>>

\* --------------------------------------------------------------------- C11
\* C11 as stated: with the credential present, once a card has been
\* processed the process exits with code 0, whatever the number of cards
\* recorded Failed.
C11_ExitZeroAfterStart ==
  (apiKey /\ Exited /\ i >= 1) => ExitCode = 0

\* --------------------------------------------------------------------- C12
\* Mutant of OutputPath: the file name does not depend on the card.
OutputPathFixedName(c) == <<"public", "cards", "card.png">>

\* output_path = OUTPUT_DIR / f"{code}.png"
OutputPath(c) == <<"public", "cards", c \o ".png">>

\* The 78 codes are pairwise distinct and give pairwise distinct paths.
CodesDistinct ==
  /\ Len(TAROT_CARDS) = 78
  /\ \A a, b \in DOMAIN TAROT_CARDS :
       a # b => /\ TAROT_CARDS[a] # TAROT_CARDS[b]
                /\ OutputPath(TAROT_CARDS[a]) # OutputPath(TAROT_CARDS[b])
  /\ Cardinality({OutputPath(TAROT_CARDS[k]) : k \in DOMAIN TAROT_CARDS}) = 78

\* C12: the catalog has exactly 78 entries, their codes are pairwise
\* distinct, and so are the output paths main computes from them: no two
\* cards share an output file, in the catalog and among the files of a run.
C12_DistinctCodes ==
  /\ CodesDistinct
  /\ provider.mode = "any" =>
       /\ Range(cards) \subseteq Range(TAROT_CARDS)
       /\ Cardinality({OutputPath(c) : c \in DOMAIN files}) = Len(cards)

C12_Witness ==
  /\ provider.mode = "any"
  /\ pc = "done"
  /\ files[TAROT_CARDS[1]] = "full"
  /\ files[TAROT_CARDS[2]] = "full"
  /\ OutputPath(TAROT_CARDS[1]) # OutputPath(TAROT_CARDS[2])

\* --------------------------------------------------------------------- C13
\* C13 as stated: the payload is written atomically: at every moment the
\* output path of a card is absent or holds a complete image, never a
\* partially written file.
C13_AtomicWrite ==
  \A c \in DOMAIN files : files[c] \in {"none", "old", "full"}

\* --------------------------------------------------------------------- C14
\* The number of inter-card pauses in the log of the card handled last.
Pauses(h) == Len(SelectSeq(h, LAMBDA e : e = Sleep(2)))

\* C14 as stated: after every card but the last the runner pauses 2 units,
\* whatever the card's outcome, and it does not pause after the last card.
C14_PauseAfterEveryCard ==
  Recorded =>
    /\ i < Len(cards) => (hist # <<>> /\ hist[Len(hist)] = Sleep(2))
    /\ i = Len(cards) => Pauses(hist) = 0

\* C14 amended: after a card for which generate_image was called (recorded
\* Generated or Failed) the runner pauses 2 units, once, unless it was the
\* last card of the catalog; after a card recorded Skipped it does not pause;
\* it never pauses before the outcome is recorded.
C14_PauseAfterGenerate ==
  /\ ~Recorded => Pauses(hist) = 0
  /\ Recorded =>
       /\ cards[i] \in Range(skipped) => hist = <<>>
       /\ cards[i] \in Range(generated) \cup Range(failed) =>
            /\ hist # <<>>
            /\ i < Len(cards) => (hist[Len(hist)] = Sleep(2) /\ Pauses(hist) = 1)
            /\ i = Len(cards) => Pauses(hist) = 0

C14_Witness ==
  /\ pc = "loop"
  /\ i = 2
  /\ i < Len(cards)
  /\ skipped = <<cards[1]>>
  /\ failed = <<cards[2]>>
  /\ hist[Len(hist)] = Sleep(2)

\* --------------------------------------------------------------------- C15
\* C15 as stated: a response with status 200 is the last response for its
\* card: no request follows it and the card is recorded Generated.
C15_OkEndsAttempts ==
  LET rs == RespEvents(hist) IN
  \A k \in DOMAIN rs :
    rs[k].n = 200 =>
      /\ k = Len(rs)
      /\ pc \notin {"gen", "ret_false"}
      /\ Recorded => (generated # <<>> /\ generated[Len(generated)] = cards[i])

\* C15 amended: a 200 response whose payload was decoded and written is the
\* last response for its card: generate_image returns True at once, no
\* request follows and the card is recorded Generated, never Failed; a 200
\* response whose payload could not be decoded or written uses up an attempt
\* like any failure and is followed by another request while attempts remain.
C15_SavedEndsAttempts ==
  LET rs == RespEvents(hist) IN
  \A k \in DOMAIN rs :
    /\ rs[k] = Saved =>
         /\ k = Len(rs)
         /\ hist[Len(Core(hist))] = Saved
         /\ pc = "ret_true" \/ Recorded
         /\ Recorded =>
              /\ generated # <<>>
              /\ generated[Len(generated)] = cards[i]
              /\ cards[i] \notin Range(failed)
    /\ rs[k] \in {DecodeFail, OpenFail, WriteFail} =>
         /\ pc = "gen" => attempt >= k
         /\ (k < 3 /\ pc # "gen") => Len(rs) > k

C15_Witness ==
  /\ Recorded
  /\ RespEvents(hist) = <<DecodeFail, Saved>>
  /\ generated # <<>>
  /\ generated[Len(generated)] = cards[i]

\* --------------------------------------------------------------------- C16
\* The number of outcomes recorded so far in this run.
Outcomes == Len(generated) + Len(skipped) + Len(failed)

IsResponse(e) == e.ev \notin {"post", "sleep"}

\* C16: cards are processed one at a time in catalog order: the outcomes
\* recorded are those of the first i cards, so a request for a card is issued
\* only after every earlier card has its outcome and before any later card is
\* touched; requests are issued by generate_image only, one per step, each
\* followed at once by its response (never a second request before the
\* response, never a request between a response and the wait that follows it).
C16_Sequential ==
  /\ [](/\ pc \in {"loop", "gen", "ret_true", "ret_false"} => i = Outcomes
        /\ Outcomes <= Len(cards)
        /\ Range(generated) \cup Range(skipped) \cup Range(failed)
             = {cards[k] : k \in 1..Outcomes}
        /\ pc \in {"gen", "ret_true", "ret_false"} =>
             /\ i < Len(cards)
             /\ \A k \in 1..Len(cards) :
                  (k > i + 1 /\ files0[cards[k]] = "none") => files[cards[k]] = "none"
        /\ \A k \in DOMAIN hist :
             /\ hist[k] = Post => (k < Len(hist) /\ IsResponse(hist[k + 1]))
             /\ IsResponse(hist[k]) => (k > 1 /\ hist[k - 1] = Post)
             /\ hist[k].ev = "sleep" =>
                  (k > 1 /\ (IsResponse(hist[k - 1]) \/ hist[k] = Sleep(2))))
  /\ [][Posts(hist') > Posts(hist) =>
          /\ pc = "gen"
          /\ i' = i
          /\ Posts(hist') = Posts(hist) + 1
          /\ Len(hist') > Len(hist)
          /\ SubSeq(hist', 1, Len(hist)) = hist
          /\ hist'[Len(hist) + 1] = Post]_vars

C16_Witness ==
  /\ pc = "gen"
  /\ i = 1
  /\ Outcomes = 1
  /\ failed = <<cards[1]>>
  /\ Posts(hist) = 2
  /\ \E k \in DOMAIN hist : hist[k] = Sleep(60)

\* --------------------------------------------------------------------- C17
\* C17: whatever the provider answers, a card gets at most 3 requests; only
\* a card whose output was missing when the run started gets any, a Skipped
\* card gets none; and a run that has entered the loop reaches the end of the
\* catalog, where the manifest is written.
C17_BoundedWork ==
  /\ [](/\ Posts(hist) <= 3
        /\ pc \in {"gen", "ret_true", "ret_false"} =>
             (files0[code] = "none" /\ attempt <= 3)
        /\ Recorded =>
             /\ Posts(hist) > 0 =>
                  (files0[cards[i]] = "none" /\ cards[i] \notin Range(skipped))
             /\ files0[cards[i]] # "none" =>
                  (Posts(hist) = 0 /\ cards[i] \in Range(skipped)))
  /\ (pc = "loop") ~> (pc = "loop" /\ i = Len(cards))

C17_Witness ==
  /\ pc = "loop"
  /\ i = Len(cards)
  /\ Posts(hist) = 3
  /\ skipped # <<>>
  /\ \E k \in DOMAIN hist : hist[k] = RateLimited
  /\ \E k \in DOMAIN hist : hist[k] = ErrorStatus
  /\ \E k \in DOMAIN hist : hist[k] = Saved

\* --------------------------------------------------------------------- C18
\* C18 as stated: at the end of a run a card's output file exists exactly
\* when the card was recorded Generated or Skipped; a Skipped card's file
\* existed when the run started and the card got no request; no card
\* recorded Failed has an output file.
C18_OutcomeMatchesFile ==
  pc = "done" =>
    /\ \A c \in CardSet : Exists(c) <=> c \in Range(generated) \cup Range(skipped)
    /\ \A c \in Range(skipped) : files0[c] # "none" /\ files[c] = files0[c]
    /\ cards[i] \in Range(skipped) => Posts(hist) = 0
    /\ \A c \in Range(failed) : files[c] = "none"

====
